---------------------------- MODULE Spec2Model ----------------------------
(***************************************************************************)
(* A model of src/src/inflection.ts: the pluralize / singularize rule      *)
(* engine (applyRules over the ordered rule tables and the uncountable     *)
(* set), the case converters, the composite transforms and transform().    *)
(*                                                                         *)
(* JavaScript strings are TLA+ strings; a one-character string stands for  *)
(* a character.  A JavaScript value is a record [t, s]: t is its runtime   *)
(* type and s its string content (for a primitive string and for a String  *)
(* wrapper object).                                                        *)
(***************************************************************************)
EXTENDS Integers, Sequences, FiniteSets, TLC

VARIABLES pc, call, outcome, lastIndex, memoCache

vars == <<pc, call, outcome, lastIndex, memoCache>>

-----------------------------------------------------------------------------
(* Characters and the String.prototype methods the source uses.            *)

UpperToLower ==
    "A" :> "a" @@ "B" :> "b" @@ "C" :> "c" @@ "D" :> "d" @@ "E" :> "e" @@ "F" :> "f" @@
    "G" :> "g" @@ "H" :> "h" @@ "I" :> "i" @@ "J" :> "j" @@ "K" :> "k" @@ "L" :> "l" @@
    "M" :> "m" @@ "N" :> "n" @@ "O" :> "o" @@ "P" :> "p" @@ "Q" :> "q" @@ "R" :> "r" @@
    "S" :> "s" @@ "T" :> "t" @@ "U" :> "u" @@ "V" :> "v" @@ "W" :> "w" @@ "X" :> "x" @@
    "Y" :> "y" @@ "Z" :> "z"

LowerToUpper ==
    "a" :> "A" @@ "b" :> "B" @@ "c" :> "C" @@ "d" :> "D" @@ "e" :> "E" @@ "f" :> "F" @@
    "g" :> "G" @@ "h" :> "H" @@ "i" :> "I" @@ "j" :> "J" @@ "k" :> "K" @@ "l" :> "L" @@
    "m" :> "M" @@ "n" :> "N" @@ "o" :> "O" @@ "p" :> "P" @@ "q" :> "Q" @@ "r" :> "R" @@
    "s" :> "S" @@ "t" :> "T" @@ "u" :> "U" @@ "v" :> "V" @@ "w" :> "W" @@ "x" :> "X" @@
    "y" :> "Y" @@ "z" :> "Z"

CharAt(s, i) == SubSeq(s, i, i)

LowerChar(c) == IF c \in DOMAIN UpperToLower THEN UpperToLower[c] ELSE c

UpperChar(c) == IF c \in DOMAIN LowerToUpper THEN LowerToUpper[c] ELSE c

RECURSIVE toLowerCase(_)
toLowerCase(s) ==
    IF s = "" THEN ""
    ELSE LowerChar(CharAt(s, 1)) \o toLowerCase(SubSeq(s, 2, Len(s)))

RECURSIVE toUpperCase(_)
toUpperCase(s) ==
    IF s = "" THEN ""
    ELSE UpperChar(CharAt(s, 1)) \o toUpperCase(SubSeq(s, 2, Len(s)))

\* s.substring(from) with a 0-based index, as in JavaScript
substring(s, from) == SubSeq(s, from + 1, Len(s))

-----------------------------------------------------------------------------
(* JavaScript values.                                                      *)

Str(s) == [t |-> "string", s |-> s]

Undefined == [t |-> "undefined", s |-> ""]

\* a number passed where a string is expected
SomeNumber == [t |-> "number", s |-> ""]

\* the boolean false
False == [t |-> "boolean", s |-> ""]

\* new String(s): typeof is "object", the string methods work on it
StringObject(s) == [t |-> "String", s |-> s]

\* any other object
OtherObject == [t |-> "Object", s |-> ""]

\* typeof v === "object"
IsObject(v) == v.t \in {"String", "Object"}

\* a value that has the methods of String.prototype
HasStringMethods(v) == v.t \in {"string", "String"}

\* ToBoolean, as in  if (override)
Truthy(v) ==
    CASE v.t = "string" -> v.s # ""
      [] v.t = "String" -> TRUE
      [] v.t = "Object" -> TRUE
      [] v.t = "number" -> TRUE
      [] OTHER -> FALSE

Return(v) == [ok |-> TRUE, val |-> v, err |-> ""]

Throw(e) == [ok |-> FALSE, val |-> Undefined, err |-> e]

-----------------------------------------------------------------------------
(* The uncountable set.                                                     *)

uncountableWords == {
    "accommodation", "adulthood", "advertising", "advice", "aggression",
    "aid", "air", "aircraft", "alcohol", "anger", "applause", "arithmetic",
    "assistance", "athletics", "bacon", "baggage", "beef", "biology",
    "blood", "botany", "bread", "butter", "carbon", "cardboard", "cash",
    "chalk", "chaos", "chess", "crossroads", "countryside", "dancing",
    "deer", "dignity", "dirt", "dust", "economics", "education",
    "electricity", "engineering", "enjoyment", "envy", "equipment", "ethics",
    "evidence", "evolution", "fame", "fiction", "flour", "flu", "food",
    "gallows", "garbage", "garlic", "genetics", "gold", "golf", "gossip",
    "gratitude", "grief", "guilt", "gymnastics", "happiness", "hardware",
    "harm", "hate", "hatred", "health", "heat", "help", "homework",
    "honesty", "honey", "hospitality", "housework", "humour", "hunger",
    "hydrogen", "ice", "importance", "inflation", "information", "innocence",
    "iron", "irony", "jam", "jewelry", "judo", "karate", "knowledge", "lack",
    "laughter", "lava", "leather", "leisure", "lightning", "linguine",
    "linguini", "linguistics", "literature", "litter", "livestock", "logic",
    "loneliness", "luck", "luggage", "macaroni", "machinery", "magic",
    "management", "mankind", "marble", "mathematics", "mayonnaise",
    "measles", "meta", "methane", "milk", "minus", "money", "mud", "music",
    "mumps", "nature", "news", "nitrogen", "nonsense", "nurture",
    "nutrition", "obedience", "obesity", "oxygen", "pasta", "patience",
    "physics", "poetry", "pollution", "poverty", "pride", "psychology",
    "publicity", "punctuation", "quartz", "racism", "relaxation",
    "reliability", "research", "respect", "revenge", "rice", "rubbish",
    "rum", "safety", "scenery", "seafood", "seaside", "series", "shame",
    "sheep", "shopping", "sleep", "smoke", "smoking", "snow", "soap",
    "software", "soil", "spaghetti", "steam", "stuff", "stupidity",
    "sunshine", "symmetry", "tennis", "thirst", "thunder", "timber", "trust",
    "underwear", "unemployment", "unity", "validity", "veal", "vegetation",
    "vegetarianism", "vengeance", "violence", "vitality", "warmth", "wealth",
    "weather", "welfare", "wheat", "wisdom", "yoga", "zinc", "zoology"
}

-----------------------------------------------------------------------------
(* Regular expressions.  Every pattern of the rule tables has the shape     *)
(*     ^? ( alt_1 | ... | alt_n ) tail $?                                    *)
(* with no quantifier and the i flag.  An element matches one character,    *)
(* compared in lower case.  caps lists the capture groups of an             *)
(* alternative as <<group, first, last>> element positions.                 *)

\* the elements of a literal string
Lit(s) == [i \in 1..Len(s) |-> [neg |-> FALSE, cs |-> {CharAt(s, i)}]]

\* a character class [...] and a negated class [^...]
Class(cs) == <<[neg |-> FALSE, cs |-> cs]>>

NotClass(cs) == <<[neg |-> TRUE, cs |-> cs]>>

\* an alternative that is not inside a capture group
Plain(els) == [els |-> els, caps |-> <<>>]

\* an alternative inside capture group 1
Group(els) == [els |-> els, caps |-> << <<1, 1, Len(els)>> >>]

\* new RegExp(source, flags): flags is "gi" or "i"
\* (all is an alternative's elements followed by the tail's)
RegExp(bol, alts, tail, eol, flags) ==
    [bol |-> bol,
     alts |-> [a \in 1..Len(alts) |->
                 [els |-> alts[a].els, caps |-> alts[a].caps,
                  all |-> alts[a].els \o Lit(tail)]],
     eol |-> eol, global |-> flags = "gi"]

ElementMatches(el, c) == (LowerChar(c) \in el.cs) # el.neg

\* alternative a of pattern re, followed by the tail, matches s at index i
AltMatchesAt(re, a, s, i) ==
    LET els == re.alts[a].all
    IN  /\ i + Len(els) <= Len(s)
        /\ re.eol => i + Len(els) = Len(s)
        /\ \A k \in 1..Len(els) : ElementMatches(els[k], CharAt(s, i + k))

MatchesAt(re, s, i) ==
    /\ re.bol => i = 0
    /\ \E a \in 1..Len(re.alts) : AltMatchesAt(re, a, s, i)

NoMatch == [found |-> FALSE, index |-> 0, end |-> 0, alt |-> 0]

\* RegExp.prototype.exec searching from index from: the leftmost match, and at that
\* index the first alternative that lets the whole pattern match
Exec(re, s, from) ==
    LET at == {i \in from..Len(s) : MatchesAt(re, s, i)}
    IN  IF at = {} THEN NoMatch
        ELSE LET i == CHOOSE x \in at : \A y \in at : x <= y
                 a == CHOOSE x \in 1..Len(re.alts) :
                        /\ AltMatchesAt(re, x, s, i)
                        /\ \A y \in 1..(x - 1) : ~AltMatchesAt(re, y, s, i)
             IN  [found |-> TRUE, index |-> i,
                  end |-> i + Len(re.alts[a].all), alt |-> a]

\* the text captured by group n of match m ("" when n did not participate)
Captured(re, s, m, n) ==
    LET caps == re.alts[m.alt].caps
        hit == {k \in 1..Len(caps) : caps[k][1] = n}
    IN  IF hit = {} THEN ""
        ELSE LET c == caps[CHOOSE k \in hit : TRUE]
             IN  SubSeq(s, m.index + c[2], m.index + c[3])

\* a replacement template: the group references it starts with, then text
Template(refs, text) == [refs |-> refs, text |-> text]

RECURSIVE ExpandRefs(_, _, _, _)
ExpandRefs(refs, re, s, m) ==
    IF refs = <<>> THEN ""
    ELSE Captured(re, s, m, Head(refs)) \o ExpandRefs(Tail(refs), re, s, m)

Expand(tpl, re, s, m) == ExpandRefs(tpl.refs, re, s, m) \o tpl.text

\* String.prototype.replace(re, template): every match for a global
\* pattern, the first match otherwise
RECURSIVE ReplaceFrom(_, _, _, _)
ReplaceFrom(s, re, tpl, from) ==
    LET m == Exec(re, s, from)
    IN  IF ~m.found THEN substring(s, from)
        ELSE SubSeq(s, from + 1, m.index) \o Expand(tpl, re, s, m) \o
             (IF ~re.global THEN substring(s, m.end)
              ELSE IF m.end > m.index THEN ReplaceFrom(s, re, tpl, m.end)
              ELSE IF m.end < Len(s)
                   THEN CharAt(s, m.end + 1) \o ReplaceFrom(s, re, tpl, m.end + 1)
                   ELSE "")

replace(s, re, tpl) == ReplaceFrom(s, re, tpl, 0)

-----------------------------------------------------------------------------
(* The patterns, in the source's names.                                     *)

\* ( w_1 | ... | w_n ) as capture group 1
Groups(ws) == [i \in 1..Len(ws) |-> Group(Lit(ws[i]))]

\* an alternative w of group 1 whose first letter is capture group n
Nested(w, n) == [els |-> Lit(w), caps |-> << <<1, 1, Len(w)>>, <<n, 1, 1>> >>]

Vowels == {"a", "e", "i", "o", "u", "y"}

\* the pattern objects of one form of the table: each carries the place it
\* is stored at, which tells regex.plural.s from regex.singular.s, two
\* objects made from one source
Objects(form, made) ==
    [key \in DOMAIN made |-> made[key] @@ [object |-> <<form, key>>]]

regex == [
  plural |-> Objects("plural", [
    men       |-> RegExp(TRUE, Groups(<<"m", "wom">>), "en", TRUE, "gi"),
    people    |-> RegExp(FALSE, Groups(<<"pe">>), "ople", TRUE, "gi"),
    children  |-> RegExp(FALSE, Groups(<<"child">>), "ren", TRUE, "gi"),
    tia       |-> RegExp(FALSE, <<Group(Class({"t", "i"}))>>, "a", TRUE, "gi"),
    analyses  |-> RegExp(FALSE,
                    <<Nested("analy", 2), Nested("ba", 3), Nested("diagno", 4),
                      Nested("parenthe", 5), Nested("progno", 6),
                      Nested("synop", 7), Nested("the", 8)>>,
                    "ses", TRUE, "gi"),
    databases |-> RegExp(FALSE, Groups(<<"database">>), "s", TRUE, "gi"),
    drives    |-> RegExp(FALSE, Groups(<<"drive">>), "s", TRUE, "gi"),
    hives     |-> RegExp(FALSE, Groups(<<"hi", "ti">>), "ves", TRUE, "gi"),
    curves    |-> RegExp(FALSE, Groups(<<"curve">>), "s", TRUE, "gi"),
    lrves     |-> RegExp(FALSE, <<Group(Class({"l", "r"}))>>, "ves", TRUE, "gi"),
    aves      |-> RegExp(FALSE, <<Group(Class({"a"}))>>, "ves", TRUE, "gi"),
    foves     |-> RegExp(FALSE, <<Group(NotClass({"f", "o"}))>>, "ves", TRUE, "gi"),
    movies    |-> RegExp(FALSE, Groups(<<"m">>), "ovies", TRUE, "gi"),
    aeiouyies |-> RegExp(FALSE, <<Group(NotClass(Vowels)), Group(Lit("qu"))>>,
                    "ies", TRUE, "gi"),
    series    |-> RegExp(FALSE, Groups(<<"s">>), "eries", TRUE, "gi"),
    xes       |-> RegExp(FALSE, Groups(<<"x", "ch", "ss", "sh">>), "es", TRUE, "gi"),
    mice      |-> RegExp(FALSE, <<Group(Class({"m", "|", "l"}))>>, "ice", TRUE, "gi"),
    buses     |-> RegExp(FALSE, Groups(<<"bus">>), "es", TRUE, "gi"),
    oes       |-> RegExp(FALSE, Groups(<<"o">>), "es", TRUE, "gi"),
    shoes     |-> RegExp(FALSE, Groups(<<"shoe">>), "s", TRUE, "gi"),
    crises    |-> RegExp(FALSE, Groups(<<"cris", "ax", "test">>), "es", TRUE, "gi"),
    octopuses |-> RegExp(FALSE, Groups(<<"octop", "vir">>), "uses", TRUE, "gi"),
    aliases   |-> RegExp(FALSE, Groups(<<"alias", "canvas", "status", "campus">>),
                    "es", TRUE, "gi"),
    summonses |-> RegExp(TRUE, Groups(<<"summons", "bonus">>), "es", TRUE, "gi"),
    oxen      |-> RegExp(TRUE, Groups(<<"ox">>), "en", FALSE, "gi"),
    matrices  |-> RegExp(FALSE, Groups(<<"matr">>), "ices", TRUE, "gi"),
    vertices  |-> RegExp(FALSE, Groups(<<"vert", "ind">>), "ices", TRUE, "gi"),
    feet      |-> RegExp(TRUE, <<Plain(Lit("feet"))>>, "", TRUE, "gi"),
    teeth     |-> RegExp(TRUE, <<Plain(Lit("teeth"))>>, "", TRUE, "gi"),
    geese     |-> RegExp(TRUE, <<Plain(Lit("geese"))>>, "", TRUE, "gi"),
    quizzes   |-> RegExp(FALSE, Groups(<<"quiz">>), "zes", TRUE, "gi"),
    whereases |-> RegExp(TRUE, Groups(<<"whereas">>), "es", TRUE, "gi"),
    criteria  |-> RegExp(TRUE, Groups(<<"criteri">>), "a", TRUE, "gi"),
    genera    |-> RegExp(TRUE, <<Plain(Lit("genera"))>>, "", TRUE, "gi"),
    ss        |-> RegExp(FALSE, <<Plain(Lit("ss"))>>, "", TRUE, "gi"),
    s         |-> RegExp(FALSE, <<Plain(Lit("s"))>>, "", TRUE, "gi")
  ]),
  singular |-> Objects("singular", [
    man       |-> RegExp(TRUE, Groups(<<"m", "wom">>), "an", TRUE, "gi"),
    person    |-> RegExp(FALSE, Groups(<<"pe">>), "rson", TRUE, "gi"),
    child     |-> RegExp(FALSE, Groups(<<"child">>), "", TRUE, "gi"),
    drive     |-> RegExp(FALSE, Groups(<<"drive">>), "", TRUE, "gi"),
    ox        |-> RegExp(TRUE, Groups(<<"ox">>), "", TRUE, "gi"),
    axis      |-> RegExp(FALSE, Groups(<<"ax", "test">>), "is", TRUE, "gi"),
    octopus   |-> RegExp(FALSE, Groups(<<"octop", "vir">>), "us", TRUE, "gi"),
    alias     |-> RegExp(FALSE, Groups(<<"alias", "status", "canvas", "campus">>),
                    "", TRUE, "gi"),
    summons   |-> RegExp(TRUE, Groups(<<"summons", "bonus">>), "", TRUE, "gi"),
    bus       |-> RegExp(FALSE, Groups(<<"bu">>), "s", TRUE, "gi"),
    buffalo   |-> RegExp(FALSE, Groups(<<"buffal", "tomat", "potat">>), "o", TRUE, "gi"),
    tium      |-> RegExp(FALSE, <<Group(Class({"t", "i"}))>>, "um", TRUE, "gi"),
    sis       |-> RegExp(FALSE, <<Plain(Lit("sis"))>>, "", TRUE, "gi"),
    ffe       |-> RegExp(FALSE,
                    <<[els |-> NotClass({"f"}) \o Lit("fe"), caps |-> << <<1, 1, 1>> >>],
                      [els |-> Class({"l", "r"}) \o Lit("f"), caps |-> << <<2, 1, 1>> >>]>>,
                    "", TRUE, "gi"),
    focus     |-> RegExp(TRUE, Groups(<<"focus">>), "", TRUE, "gi"),
    hive      |-> RegExp(FALSE, Groups(<<"hi", "ti">>), "ve", TRUE, "gi"),
    aeiouyy   |-> RegExp(FALSE, <<Group(NotClass(Vowels)), Group(Lit("qu"))>>,
                    "y", TRUE, "gi"),
    x         |-> RegExp(FALSE, Groups(<<"x", "ch", "ss", "sh">>), "", TRUE, "gi"),
    matrix    |-> RegExp(FALSE, Groups(<<"matr">>), "ix", TRUE, "gi"),
    vertex    |-> RegExp(FALSE, Groups(<<"vert", "ind">>), "ex", TRUE, "gi"),
    mouse     |-> RegExp(FALSE, <<Group(Class({"m", "|", "l"}))>>, "ouse", TRUE, "gi"),
    foot      |-> RegExp(TRUE, <<Plain(Lit("foot"))>>, "", TRUE, "gi"),
    tooth     |-> RegExp(TRUE, <<Plain(Lit("tooth"))>>, "", TRUE, "gi"),
    goose     |-> RegExp(TRUE, <<Plain(Lit("goose"))>>, "", TRUE, "gi"),
    quiz      |-> RegExp(FALSE, Groups(<<"quiz">>), "", TRUE, "gi"),
    whereas   |-> RegExp(TRUE, Groups(<<"whereas">>), "", TRUE, "gi"),
    criterion |-> RegExp(TRUE, Groups(<<"criteri">>), "on", TRUE, "gi"),
    genus     |-> RegExp(TRUE, <<Plain(Lit("genus"))>>, "", TRUE, "gi"),
    s         |-> RegExp(FALSE, <<Plain(Lit("s"))>>, "", TRUE, "gi"),
    common    |-> RegExp(FALSE, <<Plain(<<>>)>>, "", TRUE, "gi")
  ])
]

\* the literal /metas$/i of the singular table
metas == RegExp(FALSE, <<Plain(Lit("metas"))>>, "", TRUE, "i")

-----------------------------------------------------------------------------
(* The rule tables: [pattern, replacement?] pairs in the source's order.    *)

\* a rule with no replacement
Guard(re) == [rule |-> re, has |-> FALSE, replacement |-> Template(<<>>, "")]

\* a rule with a replacement template "$r1$r2...text"
Rule(re, refs, text) ==
    [rule |-> re, has |-> TRUE, replacement |-> Template(refs, text)]

\* the plural table over the pattern objects re
PluralRules(re) == <<
  Guard(re.plural.men), Guard(re.plural.people),
  Guard(re.plural.children), Guard(re.plural.tia),
  Guard(re.plural.analyses), Guard(re.plural.databases),
  Guard(re.plural.drives), Guard(re.plural.hives),
  Guard(re.plural.curves), Guard(re.plural.lrves),
  Guard(re.plural.foves), Guard(re.plural.aeiouyies),
  Guard(re.plural.series), Guard(re.plural.movies),
  Guard(re.plural.xes), Guard(re.plural.mice),
  Guard(re.plural.buses), Guard(re.plural.oes),
  Guard(re.plural.shoes), Guard(re.plural.crises),
  Guard(re.plural.octopuses), Guard(re.plural.aliases),
  Guard(re.plural.summonses), Guard(re.plural.oxen),
  Guard(re.plural.matrices), Guard(re.plural.feet),
  Guard(re.plural.teeth), Guard(re.plural.geese),
  Guard(re.plural.quizzes), Guard(re.plural.whereases),
  Guard(re.plural.criteria), Guard(re.plural.genera),
  Rule(re.singular.man, <<1>>, "en"),
  Rule(re.singular.person, <<1>>, "ople"),
  Rule(re.singular.child, <<1>>, "ren"),
  Rule(re.singular.drive, <<1>>, "s"),
  Rule(re.singular.ox, <<1>>, "en"),
  Rule(re.singular.axis, <<1>>, "es"),
  Rule(re.singular.octopus, <<1>>, "uses"),
  Rule(re.singular.alias, <<1>>, "es"),
  Rule(re.singular.summons, <<1>>, "es"),
  Rule(re.singular.bus, <<1>>, "ses"),
  Rule(re.singular.buffalo, <<1>>, "oes"),
  Rule(re.singular.tium, <<1>>, "a"),
  Rule(re.singular.sis, <<>>, "ses"),
  Rule(re.singular.ffe, <<1, 2>>, "ves"),
  Rule(re.singular.focus, <<1>>, "es"),
  Rule(re.singular.hive, <<1>>, "ves"),
  Rule(re.singular.aeiouyy, <<1>>, "ies"),
  Rule(re.singular.matrix, <<1>>, "ices"),
  Rule(re.singular.vertex, <<1>>, "ices"),
  Rule(re.singular.x, <<1>>, "es"),
  Rule(re.singular.mouse, <<1>>, "ice"),
  Rule(re.singular.foot, <<>>, "feet"),
  Rule(re.singular.tooth, <<>>, "teeth"),
  Rule(re.singular.goose, <<>>, "geese"),
  Rule(re.singular.quiz, <<1>>, "zes"),
  Rule(re.singular.whereas, <<1>>, "es"),
  Rule(re.singular.criterion, <<1>>, "a"),
  Rule(re.singular.genus, <<>>, "genera"),
  Rule(re.singular.s, <<>>, "s"),
  Rule(re.singular.common, <<>>, "s")
>>

pluralRules == PluralRules(regex)

\* the singular table over the pattern objects re
SingularRules(re) == <<
  Guard(re.singular.man), Guard(re.singular.person),
  Guard(re.singular.child), Guard(re.singular.drive),
  Guard(re.singular.ox), Guard(re.singular.axis),
  Guard(re.singular.octopus), Guard(re.singular.alias),
  Guard(re.singular.summons), Guard(re.singular.bus),
  Guard(re.singular.buffalo), Guard(re.singular.tium),
  Guard(re.singular.sis), Guard(re.singular.ffe),
  Guard(re.singular.focus), Guard(re.singular.hive),
  Guard(re.singular.aeiouyy), Guard(re.singular.x),
  Guard(re.singular.matrix), Guard(re.singular.mouse),
  Guard(re.singular.foot), Guard(re.singular.tooth),
  Guard(re.singular.goose), Guard(re.singular.quiz),
  Guard(re.singular.whereas), Guard(re.singular.criterion),
  Guard(re.singular.genus),
  Rule(re.plural.men, <<1>>, "an"),
  Rule(re.plural.people, <<1>>, "rson"),
  Rule(re.plural.children, <<1>>, ""),
  Rule(re.plural.databases, <<1>>, ""),
  Rule(re.plural.drives, <<1>>, ""),
  Rule(re.plural.genera, <<>>, "genus"),
  Rule(re.plural.criteria, <<1>>, "on"),
  Rule(re.plural.tia, <<1>>, "um"),
  Rule(re.plural.analyses, <<1, 2>>, "sis"),
  Rule(re.plural.hives, <<1>>, "ve"),
  Rule(re.plural.curves, <<1>>, ""),
  Rule(re.plural.lrves, <<1>>, "f"),
  Rule(re.plural.aves, <<1>>, "ve"),
  Rule(re.plural.foves, <<1>>, "fe"),
  Rule(re.plural.movies, <<1>>, "ovie"),
  Rule(re.plural.aeiouyies, <<1>>, "y"),
  Rule(re.plural.series, <<1>>, "eries"),
  Rule(re.plural.xes, <<1>>, ""),
  Rule(re.plural.mice, <<1>>, "ouse"),
  Rule(re.plural.buses, <<1>>, ""),
  Rule(re.plural.oes, <<1>>, ""),
  Rule(re.plural.shoes, <<1>>, ""),
  Rule(re.plural.crises, <<1>>, "is"),
  Rule(re.plural.octopuses, <<1>>, "us"),
  Rule(re.plural.aliases, <<1>>, ""),
  Rule(re.plural.summonses, <<1>>, ""),
  Rule(re.plural.oxen, <<1>>, ""),
  Rule(re.plural.matrices, <<1>>, "ix"),
  Rule(re.plural.vertices, <<1>>, "ex"),
  Rule(re.plural.feet, <<>>, "foot"),
  Rule(re.plural.teeth, <<>>, "tooth"),
  Rule(re.plural.geese, <<>>, "goose"),
  Rule(re.plural.quizzes, <<1>>, ""),
  Rule(re.plural.whereases, <<1>>, ""),
  Rule(metas, <<>>, "meta"),
  Rule(re.plural.ss, <<>>, "ss"),
  Rule(re.plural.s, <<>>, "")
>>

singularRules == SingularRules(regex)

-----------------------------------------------------------------------------
(* The rule engine and the three entry points built on it.                  *)

\* The lastIndex of the pattern objects: cur holds the patterns whose
\* lastIndex is not 0, each with its lastIndex.
AtZero == [p \in {} |-> 0]

LastIndexOf(cur, re) == IF re \in DOMAIN cur THEN cur[re] ELSE 0

\* rule.lastIndex = n
SetLastIndex(cur, re, n) ==
    [p \in (DOMAIN cur \ {re}) \cup (IF n = 0 THEN {} ELSE {re}) |->
        IF p = re THEN n ELSE cur[p]]

\* what a call that uses the rule tables gives: what it returned or threw,
\* and the lastIndex it leaves in the patterns
Result(o, cur) == [outcome |-> o, lastIndex |-> cur]

\* rule.test(str) for a pattern whose lastIndex is from: a pattern with the
\* g flag searches from lastIndex on and leaves lastIndex at the end of the
\* match, or at 0 when there is none
Tested(re, from, m) ==
    [found |-> m.found,
     lastIndex |-> IF ~re.global THEN from ELSE IF m.found THEN m.end ELSE 0]

\* the match exec looks for from index start, none past the end of s
ExecFrom(re, s, start) ==
    IF start > Len(s) THEN NoMatch ELSE Exec(re, s, start)

test(re, s, from) ==
    Tested(re, from, ExecFrom(re, s, IF re.global THEN from ELSE 0))

\* the lastIndex str.replace(rule, replacement) leaves: 0 for a pattern with
\* the g flag, untouched otherwise
AfterReplace(re, from) == IF re.global THEN 0 ELSE from

\* the template is the empty string '', which JavaScript treats as false
IsEmptyTemplate(tpl) == tpl.refs = <<>> /\ tpl.text = ""

\* replacement ? ... : ...  -- undefined and '' are both false
HasTruthyReplacement(r) == r.has /\ ~IsEmptyTemplate(r.replacement)

\* what the body of the if gives for the rule that matched
Matched(str, r) ==
    IF HasTruthyReplacement(r)
    THEN Return(Str(replace(str.s, r.rule, r.replacement)))
    ELSE Return(str)

\* the for loop without its early return: the last matching rule decides
ScanRules_LastMatchWins(str, rules, i, cur) ==
    LET hits == {j \in i..Len(rules) :
                   test(rules[j].rule, str.s, LastIndexOf(cur, rules[j].rule)).found}
        left == [p \in DOMAIN cur \ {rules[j].rule : j \in i..Len(rules)} |-> cur[p]]
    IN  IF hits = {} THEN Result(Return(str), left)
        ELSE LET j == CHOOSE x \in hits : \A y \in hits : y <= x
             IN  Result(Matched(str, rules[j]), left)

\* the for loop without `rule.lastIndex = 0`: the pattern that matched keeps
\* the lastIndex test left in it, unless str.replace runs and resets it
RECURSIVE ScanRules_NoReset(_, _, _, _)
ScanRules_NoReset(str, rules, i, cur) ==
    IF i > Len(rules) THEN Result(Return(str), cur)
    ELSE LET t == test(rules[i].rule, str.s, LastIndexOf(cur, rules[i].rule))
         IN  IF t.found
             THEN Result(Matched(str, rules[i]),
                         SetLastIndex(cur, rules[i].rule,
                                      IF HasTruthyReplacement(rules[i])
                                      THEN AfterReplace(rules[i].rule, t.lastIndex)
                                      ELSE t.lastIndex))
             ELSE ScanRules_NoReset(str, rules, i + 1,
                                    SetLastIndex(cur, rules[i].rule, t.lastIndex))

\* a rule without replacement does not end the loop: the scan goes on to the
\* next rule
RECURSIVE ScanRules_SkipsGuards(_, _, _, _)
ScanRules_SkipsGuards(str, rules, i, cur) ==
    IF i > Len(rules) THEN Result(Return(str), cur)
    ELSE LET t == test(rules[i].rule, str.s, LastIndexOf(cur, rules[i].rule))
         IN  IF t.found /\ rules[i].has
             THEN Result(Matched(str, rules[i]),
                         SetLastIndex(cur, rules[i].rule,
                                      IF HasTruthyReplacement(rules[i])
                                      THEN AfterReplace(rules[i].rule, 0)
                                      ELSE 0))
             ELSE ScanRules_SkipsGuards(str, rules, i + 1,
                                        SetLastIndex(cur, rules[i].rule, 0))

\* the body of the for loop, from rule i on
RECURSIVE ScanRules(_, _, _, _)
ScanRules(str, rules, i, cur) ==
    IF i > Len(rules) THEN Result(Return(str), cur)
    ELSE LET t == test(rules[i].rule, str.s, LastIndexOf(cur, rules[i].rule))
         IN  IF t.found
             THEN Result(Matched(str, rules[i]),
                         SetLastIndex(cur, rules[i].rule,
                                      IF HasTruthyReplacement(rules[i])
                                      THEN AfterReplace(rules[i].rule, 0)
                                      ELSE 0))
             ELSE ScanRules(str, rules, i + 1,
                            SetLastIndex(cur, rules[i].rule, t.lastIndex))

\* applyRules looking the word up in skip without lower-casing it
applyRules_CaseSensitiveSkip(str, rules, skip, override, cur) ==
    IF Truthy(override) THEN Result(Return(override), cur)
    ELSE IF ~HasStringMethods(str) THEN Result(Throw("TypeError"), cur)
    ELSE IF str.s \in skip THEN Result(Return(str), cur)
    ELSE ScanRules(str, rules, 1, cur)

\* applyRules checking skip before the override
applyRules_SkipBeforeOverride(str, rules, skip, override, cur) ==
    IF HasStringMethods(str) /\ toLowerCase(str.s) \in skip
    THEN Result(Return(str), cur)
    ELSE IF Truthy(override) THEN Result(Return(override), cur)
    ELSE IF ~HasStringMethods(str) THEN Result(Throw("TypeError"), cur)
    ELSE ScanRules(str, rules, 1, cur)

\* cur is the lastIndex of the patterns when the call starts
applyRules(str, rules, skip, override, cur) ==
    IF Truthy(override) THEN Result(Return(override), cur)
    ELSE IF ~HasStringMethods(str) THEN Result(Throw("TypeError"), cur)
    ELSE IF toLowerCase(str.s) \in skip THEN Result(Return(str), cur)
    ELSE ScanRules(str, rules, 1, cur)

\* the message validateInput throws, "" when it returns normally
validateInput(str) ==
    IF str.t # "string" THEN "Input must be a string"
    ELSE IF Len(str.s) = 0 THEN "Input string cannot be empty"
    ELSE ""

pluralize(str, plural, cur) ==
    IF validateInput(str) # "" THEN Result(Throw(validateInput(str)), cur)
    ELSE IF Truthy(plural) /\ validateInput(plural) # ""
         THEN Result(Throw(validateInput(plural)), cur)
    ELSE applyRules(str, pluralRules, uncountableWords, plural, cur)

singularize(str, singular, cur) ==
    IF validateInput(str) # "" THEN Result(Throw(validateInput(str)), cur)
    ELSE IF Truthy(singular) /\ validateInput(singular) # ""
         THEN Result(Throw(validateInput(singular)), cur)
    ELSE applyRules(str, singularRules, uncountableWords, singular, cur)

\* a JavaScript number: NaN, or the half-integer twice / 2
NaN == [nan |-> TRUE, twice |-> 0]

Num(twice) == [nan |-> FALSE, twice |-> twice]

isNaN(count) == count.nan

\* count <= 1 in place of count === 1
IsOne_AtMostOne(count) == ~count.nan /\ count.twice <= 2

\* count === 1
IsOne(count) == ~count.nan /\ count.twice = 2

inflect(str, count, singular, plural, cur) ==
    IF isNaN(count) THEN Result(Return(str), cur)
    ELSE IF IsOne(count)
         THEN applyRules(str, singularRules, uncountableWords, singular, cur)
         ELSE applyRules(str, pluralRules, uncountableWords, plural, cur)

-----------------------------------------------------------------------------
(* More String.prototype methods (0-based indices, as in JavaScript).       *)

charAt(s, i) == IF i >= 0 /\ i < Len(s) THEN SubSeq(s, i + 1, i + 1) ELSE ""

Clamp(i, n) == IF i < 0 THEN 0 ELSE IF i > n THEN n ELSE i

\* s.substring(a, b)
substring2(s, a, b) ==
    LET x == Clamp(a, Len(s))
        y == Clamp(b, Len(s))
    IN  IF x <= y THEN SubSeq(s, x + 1, y) ELSE SubSeq(s, y + 1, x)

\* s.indexOf(sep), -1 when sep does not occur
indexOf(s, sep) ==
    LET at == {i \in 0..(Len(s) - Len(sep)) : SubSeq(s, i + 1, i + Len(sep)) = sep}
    IN  IF at = {} THEN -1 ELSE CHOOSE x \in at : \A y \in at : x <= y

\* s.split(sep) for a non-empty separator
RECURSIVE split(_, _)
split(s, sep) ==
    LET i == indexOf(s, sep)
    IN  IF i < 0 THEN <<s>>
        ELSE <<SubSeq(s, 1, i)>> \o split(substring(s, i + Len(sep)), sep)

\* arr.join(sep)
RECURSIVE join(_, _)
join(arr, sep) ==
    IF Len(arr) = 0 THEN ""
    ELSE IF Len(arr) = 1 THEN arr[1]
    ELSE arr[1] \o sep \o join(Tail(arr), sep)

\* s.replace(/c/g, to) for the one-character patterns underbar and
\* spaceOrUnderbar: every character of cs becomes to
RECURSIVE ReplaceChars(_, _, _)
ReplaceChars(s, cs, to) ==
    IF s = "" THEN ""
    ELSE (IF charAt(s, 0) \in cs THEN to ELSE charAt(s, 0)) \o
         ReplaceChars(substring(s, 1), cs, to)

\* s.replace(uppercase, '_$1'): an underscore before every A-Z
RECURSIVE ReplaceUppercase(_)
ReplaceUppercase(s) ==
    IF s = "" THEN ""
    ELSE (IF charAt(s, 0) \in DOMAIN UpperToLower THEN "_" ELSE "") \o
         charAt(s, 0) \o ReplaceUppercase(substring(s, 1))

\* s.replace(underbarPrefix, '')
ReplaceUnderbarPrefix(s) == IF charAt(s, 0) = "_" THEN substring(s, 1) ELSE s

EndsWith(s, suffix) ==
    Len(s) >= Len(suffix) /\ substring(s, Len(s) - Len(suffix)) = suffix

\* s.replace(idSuffix, ''): idSuffix is /(_ids|_id)$/g
ReplaceIdSuffix(s) ==
    IF EndsWith(s, "_ids") THEN substring2(s, 0, Len(s) - 4)
    ELSE IF EndsWith(s, "_id") THEN substring2(s, 0, Len(s) - 3)
    ELSE s

-----------------------------------------------------------------------------
(* The case converters.  None of them validates its input: a string method  *)
(* called on a value that has none throws a TypeError.                      *)

\* the inner loop taking its lowFirstLetter branch whatever the flag
CamelizeSegment_LowFirstAlways(seg, lowFirstLetter) ==
    LET strArr == split(seg, "_")
    IN  join([k \in 1..Len(strArr) |->
                IF k = 1
                THEN LowerChar(charAt(strArr[k], 0)) \o substring(strArr[k], 1)
                ELSE UpperChar(charAt(strArr[k], 0)) \o
                     toLowerCase(substring(strArr[k], 1))], "")

\* the inner loop with the k > 0 branch left out: only the first part of a
\* segment gets its first letter changed
CamelizeSegment_FirstPartOnly(seg, lowFirstLetter) ==
    LET strArr == split(seg, "_")
    IN  join([k \in 1..Len(strArr) |->
                IF k = 1
                THEN IF ~lowFirstLetter
                     THEN UpperChar(charAt(strArr[k], 0)) \o substring(strArr[k], 1)
                     ELSE LowerChar(charAt(strArr[k], 0)) \o substring(strArr[k], 1)
                ELSE strArr[k]], "")

\* the inner loop of camelize over the '_'-separated parts of one segment
CamelizeSegment(seg, lowFirstLetter) ==
    LET strArr == split(seg, "_")
    IN  join([k \in 1..Len(strArr) |->
                IF k = 1
                THEN IF ~lowFirstLetter
                     THEN UpperChar(charAt(strArr[k], 0)) \o substring(strArr[k], 1)
                     ELSE LowerChar(charAt(strArr[k], 0)) \o substring(strArr[k], 1)
                ELSE UpperChar(charAt(strArr[k], 0)) \o
                     toLowerCase(substring(strArr[k], 1))], "")

camelize(str, lowFirstLetter) ==
    IF ~HasStringMethods(str) THEN Throw("TypeError")
    ELSE LET strPath == split(str.s, "/")
         IN  Return(Str(join([i \in 1..Len(strPath) |->
                               CamelizeSegment(strPath[i], lowFirstLetter)], "::")))

underscore(str, allUpperCase) ==
    IF ~HasStringMethods(str) THEN Throw("TypeError")
    ELSE IF allUpperCase /\ str.t = "string" /\ str.s = toUpperCase(str.s)
         THEN Return(str)
    ELSE LET strPath == split(str.s, "::")
         IN  Return(Str(toLowerCase(join([i \in 1..Len(strPath) |->
                 ReplaceUnderbarPrefix(ReplaceUppercase(strPath[i]))], "/"))))

\* capitalize with the rest taken from index 0 in place of index 1
Capitalized_RestFromZero(s) ==
    LET l == toLowerCase(s)
    IN  toUpperCase(substring2(l, 0, 1)) \o substring(l, 0)

\* capitalize on a string
Capitalized(s) ==
    LET l == toLowerCase(s)
    IN  toUpperCase(substring2(l, 0, 1)) \o substring(l, 1)

capitalize(str) ==
    IF ~HasStringMethods(str) THEN Throw("TypeError")
    ELSE Return(Str(Capitalized(str.s)))

humanize(str, lowFirstLetter) ==
    IF ~HasStringMethods(str) THEN Throw("TypeError")
    ELSE LET s == ReplaceChars(ReplaceIdSuffix(toLowerCase(str.s)), {"_"}, " ")
         IN  Return(Str(IF ~lowFirstLetter THEN Capitalized(s) ELSE s))

dasherize(str) ==
    IF ~HasStringMethods(str) THEN Throw("TypeError")
    ELSE Return(Str(ReplaceChars(str.s, {" ", "_"}, "-")))

nonTitlecasedWords ==
    <<"and", "or", "nor", "a", "an", "the", "so", "but", "to", "of", "at",
      "by", "from", "into", "on", "onto", "off", "out", "in", "over", "with",
      "for">>

\* the inner loop without the test against nonTitlecasedWords
TitleizeWord_NoList(w) ==
    LET d == split(w, "-")
    IN  join([k \in 1..Len(d) |-> Capitalized(d[k])], "-")

\* the inner loop of titleize over the '-'-separated parts of one word
TitleizeWord(w) ==
    LET d == split(w, "-")
    IN  join([k \in 1..Len(d) |->
                IF \A n \in 1..Len(nonTitlecasedWords) :
                       nonTitlecasedWords[n] # toLowerCase(d[k])
                THEN Capitalized(d[k])
                ELSE d[k]], "-")

titleize(str) ==
    IF ~HasStringMethods(str) THEN Throw("TypeError")
    ELSE LET strArr == split(ReplaceChars(toLowerCase(str.s), {"_"}, " "), " ")
             s == join([i \in 1..Len(strArr) |-> TitleizeWord(strArr[i])], " ")
         IN  Return(Str(toUpperCase(substring2(s, 0, 1)) \o substring(s, 1)))

demodulize(str) ==
    IF ~HasStringMethods(str) THEN Throw("TypeError")
    ELSE LET strArr == split(str.s, "::")
         IN  Return(Str(strArr[Len(strArr)]))

-----------------------------------------------------------------------------
(* The composite transforms.                                                *)

tableize(str, cur) ==
    LET u == underscore(str, FALSE)
    IN  IF ~u.ok THEN Result(u, cur) ELSE pluralize(u.val, Undefined, cur)

classify(str, cur) ==
    LET c == camelize(str, FALSE)
    IN  IF ~c.ok THEN Result(c, cur) ELSE singularize(c.val, Undefined, cur)

foreignKey(str, dropIdUbar) ==
    LET d == demodulize(str)
        u == underscore(d.val, FALSE)
    IN  IF ~d.ok THEN d
        ELSE IF ~u.ok THEN u
        ELSE Return(Str(u.val.s \o (IF dropIdUbar THEN "" ELSE "_") \o "id"))

Digits == {"0", "1", "2", "3", "4", "5", "6", "7", "8", "9"}

\* isNaN(parseInt(tok, 10)): parseInt reads an optional sign and then the
\* longest run of digits, and gives NaN when that run is empty
ParseIntIsNaN(tok) ==
    LET body == IF charAt(tok, 0) \in {"+", "-"} THEN substring(tok, 1) ELSE tok
    IN  charAt(body, 0) \notin Digits

\* the loop body without the test of the last two digits
OrdinalizeToken_NoTeens(tok) ==
    IF ParseIntIsNaN(tok) THEN tok
    ELSE LET ld == substring(tok, Clamp(Len(tok) - 1, Len(tok)))
         IN  tok \o (IF ld = "1" THEN "st"
                     ELSE IF ld = "2" THEN "nd"
                     ELSE IF ld = "3" THEN "rd"
                     ELSE "th")

\* the body of ordinalize's loop for one token
OrdinalizeToken(tok) ==
    IF ParseIntIsNaN(tok) THEN tok
    ELSE LET ltd == substring(tok, Clamp(Len(tok) - 2, Len(tok)))
             ld == substring(tok, Clamp(Len(tok) - 1, Len(tok)))
             suf == IF ltd # "11" /\ ltd # "12" /\ ltd # "13"
                    THEN IF ld = "1" THEN "st"
                         ELSE IF ld = "2" THEN "nd"
                         ELSE IF ld = "3" THEN "rd"
                         ELSE "th"
                    ELSE "th"
         IN  tok \o suf

ordinalize(str) ==
    IF ~HasStringMethods(str) THEN Throw("TypeError")
    ELSE LET strArr == split(str.s, " ")
         IN  Return(Str(join([i \in 1..Len(strArr) |->
                               OrdinalizeToken(strArr[i])], " ")))

-----------------------------------------------------------------------------
(* transform and its registry.                                              *)

\* the own keys of transformFunctions, in the source's order
TransformFunctionName ==
    <<"pluralize", "singularize", "camelize", "underscore", "humanize",
      "capitalize", "dasherize", "titleize", "demodulize", "tableize",
      "classify", "foreignKey", "ordinalize">>

\* Function.prototype.length of the exported functions (declared parameters)
FunctionLength ==
    [pluralize |-> 2, singularize |-> 2, camelize |-> 2, underscore |-> 2,
     humanize |-> 2, capitalize |-> 1, dasherize |-> 1, titleize |-> 1,
     demodulize |-> 1, tableize |-> 1, classify |-> 1, foreignKey |-> 2,
     ordinalize |-> 1]

\* Function.prototype.length of the arrow functions stored in the registry
WrapperLength ==
    [pluralize |-> 2, singularize |-> 2, camelize |-> 2, underscore |-> 2,
     humanize |-> 2, capitalize |-> 1, dasherize |-> 1, titleize |-> 1,
     demodulize |-> 1, tableize |-> 1, classify |-> 1, foreignKey |-> 2,
     ordinalize |-> 1]

\* transformFunctions is an object literal, so a property lookup on it also
\* finds what it inherits from Object.prototype: the name of each inherited
\* property with the length of the function it holds (-1: not a function)
ObjectPrototype ==
    [constructor |-> 1, hasOwnProperty |-> 1, isPrototypeOf |-> 1,
     propertyIsEnumerable |-> 1, toString |-> 0, toLocaleString |-> 0,
     valueOf |-> 0, __defineGetter__ |-> 2, __defineSetter__ |-> 2,
     __lookupGetter__ |-> 1, __lookupSetter__ |-> 1, __proto__ |-> -1]

IsOwnName(value) ==
    \E i \in 1..Len(TransformFunctionName) : TransformFunctionName[i] = value

\* value in transformFunctions
isTransformFunctionName(value) ==
    IsOwnName(value) \/ value \in DOMAIN ObjectPrototype

\* the length of transformFunctions[method], -1 when it is not a function
LookupLength(method) ==
    IF IsOwnName(method) THEN WrapperLength[method] ELSE ObjectPrototype[method]

\* typeof value === 'function' && value.length >= 1
isTransformFunction(length) == length >= 1

isBaseTransformFunction(length) == length = 1

isBooleanParamTransformFunction(length) == length >= 0 /\ length <= 2

isStringParamTransformFunction(length) == length >= 0 /\ length <= 2

isIdSuffixTransformFunction(length) == length >= 0 /\ length <= 2

\* Object(v), the call of the inherited "constructor"
ObjectOf(v) ==
    IF v.t = "string" THEN StringObject(v.s)
    ELSE IF IsObject(v) THEN v
    ELSE OtherObject

\* a function inherited from Object.prototype called as f(v): this is
\* undefined, so every method that converts this to an object throws
InheritedFn(method, v) ==
    CASE method = "constructor" -> Return(ObjectOf(v))
      [] method = "isPrototypeOf" ->
           IF IsObject(v) THEN Throw("TypeError") ELSE Return(False)
      [] OTHER -> Throw("TypeError")

\* transformFunctions[method](str): the wrapper calls the exported function
\* with the wrapper's second parameter, which transform never passes
transformFunctions(method, str, cur) ==
    CASE method = "pluralize" ->
           IF ~isStringParamTransformFunction(FunctionLength.pluralize)
           THEN Result(Throw("Invalid pluralize function implementation"), cur)
           ELSE pluralize(str, Undefined, cur)
      [] method = "singularize" ->
           IF ~isStringParamTransformFunction(FunctionLength.singularize)
           THEN Result(Throw("Invalid singularize function implementation"), cur)
           ELSE singularize(str, Undefined, cur)
      [] method = "camelize" ->
           Result(IF ~isBooleanParamTransformFunction(FunctionLength.camelize)
                  THEN Throw("Invalid camelize function implementation")
                  ELSE camelize(str, FALSE), cur)
      [] method = "underscore" ->
           Result(IF ~isBooleanParamTransformFunction(FunctionLength.underscore)
                  THEN Throw("Invalid underscore function implementation")
                  ELSE underscore(str, FALSE), cur)
      [] method = "humanize" ->
           Result(IF ~isBooleanParamTransformFunction(FunctionLength.humanize)
                  THEN Throw("Invalid humanize function implementation")
                  ELSE humanize(str, FALSE), cur)
      [] method = "capitalize" ->
           Result(IF ~isBaseTransformFunction(FunctionLength.capitalize)
                  THEN Throw("Invalid capitalize function implementation")
                  ELSE capitalize(str), cur)
      [] method = "dasherize" ->
           Result(IF ~isBaseTransformFunction(FunctionLength.dasherize)
                  THEN Throw("Invalid dasherize function implementation")
                  ELSE dasherize(str), cur)
      [] method = "titleize" ->
           Result(IF ~isBaseTransformFunction(FunctionLength.titleize)
                  THEN Throw("Invalid titleize function implementation")
                  ELSE titleize(str), cur)
      [] method = "demodulize" ->
           Result(IF ~isBaseTransformFunction(FunctionLength.demodulize)
                  THEN Throw("Invalid demodulize function implementation")
                  ELSE demodulize(str), cur)
      [] method = "tableize" ->
           IF ~isBaseTransformFunction(FunctionLength.tableize)
           THEN Result(Throw("Invalid tableize function implementation"), cur)
           ELSE tableize(str, cur)
      [] method = "classify" ->
           IF ~isBaseTransformFunction(FunctionLength.classify)
           THEN Result(Throw("Invalid classify function implementation"), cur)
           ELSE classify(str, cur)
      [] method = "foreignKey" ->
           Result(IF ~isIdSuffixTransformFunction(FunctionLength.foreignKey)
                  THEN Throw("Invalid foreignKey function implementation")
                  ELSE foreignKey(str, FALSE), cur)
      [] method = "ordinalize" ->
           Result(IF ~isBaseTransformFunction(FunctionLength.ordinalize)
                  THEN Throw("Invalid ordinalize function implementation")
                  ELSE ordinalize(str), cur)
      [] OTHER -> Result(InheritedFn(method, str), cur)

\* the callback handed to arr.reduce, called as callback(result, method)
Callback(result, method, cur) ==
    IF ~isTransformFunctionName(method)
    THEN Result(Throw("Invalid transformation function name"), cur)
    ELSE IF ~isTransformFunction(LookupLength(method))
         THEN Result(Throw("Invalid transformation function"), cur)
    ELSE transformFunctions(method, result, cur)

\* arr.reduceRight in place of arr.reduce: the names are applied last first
RECURSIVE Reduce_RightToLeft(_, _, _)
Reduce_RightToLeft(acc, arr, i) ==
    IF ~acc.outcome.ok \/ i > Len(arr) THEN acc
    ELSE Reduce_RightToLeft(Callback(acc.outcome.val, arr[Len(arr) + 1 - i],
                                     acc.lastIndex), arr, i + 1)

\* arr.reduce(callback, str) from element i on: acc is what the callback
\* gave last, and a callback that throws ends the reduce
RECURSIVE Reduce(_, _, _)
Reduce(acc, arr, i) ==
    IF ~acc.outcome.ok \/ i > Len(arr) THEN acc
    ELSE Reduce(Callback(acc.outcome.val, arr[i], acc.lastIndex), arr, i + 1)

\* arr is [isArray, items]
transform(str, arr, cur) ==
    IF validateInput(str) # "" THEN Result(Throw(validateInput(str)), cur)
    ELSE IF ~arr.isArray
         THEN Result(Throw("Second argument must be an array of transformation function names"), cur)
    ELSE Reduce(Result(Return(str), cur), arr.items, 1)

-----------------------------------------------------------------------------
(* memoize and its cache.  No export of the module is wrapped by memoize;   *)
(* the wrapper is modelled for the functions a caller could hand to it.     *)

\* new Map()
EmptyMap == [k \in {} |-> Undefined]

\* JSON.stringify of one element of an array: a string in double quotes
\* (no character of the words used here needs an escape), null for undefined
StringifyValue(v) == IF v.t = "string" THEN "\"" \o v.s \o "\"" ELSE "null"

\* JSON.stringify(args)
Stringify(args) ==
    "[" \o join([i \in 1..Len(args) |-> StringifyValue(args[i])], ",") \o "]"

\* args[i], undefined past the end of args
Arg(args, i) == IF i <= Len(args) THEN args[i] ELSE Undefined

\* fn(...args) for the function named fn
Apply(fn, args, cur) ==
    CASE fn = "pluralize" -> pluralize(Arg(args, 1), Arg(args, 2), cur)
      [] fn = "singularize" -> singularize(Arg(args, 1), Arg(args, 2), cur)
      [] fn = "capitalize" -> Result(capitalize(Arg(args, 1)), cur)

\* memoCache.set(key, result) after fn(...args) gave result; a call that
\* throws leaves the wrapper before the set
Set(cache, key, result) ==
    [result |-> result,
     memoCache |-> IF ~result.outcome.ok THEN cache
                   ELSE [k \in DOMAIN cache \cup {key} |->
                           IF k = key THEN result.outcome.val ELSE cache[k]]]

\* memoize(fn)(...args) with the cache holding cache: what the call gives,
\* and the cache afterwards
memoize(fn, args, cache, cur) ==
    LET key == Stringify(args)
    IN  IF key \in DOMAIN cache
        THEN [result |-> Result(Return(cache[key]), cur), memoCache |-> cache]
        ELSE Set(cache, key, Apply(fn, args, cur))

-----------------------------------------------------------------------------
(* The inputs the calls are drawn from.                                     *)

\* the longest generated word
MaxLen == 3

\* the longest name list passed to transform
MaxNames == 2

\* counts range over the half-integers from -MaxCount/2 to MaxCount/2
MaxCount == 4

Alphabet == {"a", "e", "s", "x", "S"}

\* every string over Alphabet of length n
RECURSIVE StringsOfLen(_)
StringsOfLen(n) ==
    IF n = 0 THEN {""}
    ELSE {s \o c : s \in StringsOfLen(n - 1), c \in Alphabet}

GeneratedWords == UNION {StringsOfLen(n) : n \in 1..MaxLen}

\* singulars, plurals and other nouns the rule tables are written for
TableWords ==
    {"cat", "cats", "Hat", "Hats", "cow", "cows", "man", "men", "woman",
     "women", "person", "people", "child", "children", "ox", "oxen", "axis",
     "axes", "octopus", "octopuses", "alias", "aliases", "summons",
     "summonses", "bus", "buses", "buffalo", "buffaloes", "focus", "focuses",
     "hive", "hives", "matrix", "matrices", "vertex", "vertices", "mouse",
     "mice", "foot", "feet", "tooth", "teeth", "goose", "geese", "quiz",
     "quizzes", "whereas", "whereases", "criterion", "criteria", "genus",
     "genera", "analysis", "analyses", "basis", "bases", "diagnosis",
     "diagnoses", "parenthesis", "parentheses", "prognosis", "prognoses",
     "synopsis", "synopses", "thesis", "theses", "datum", "data", "medium",
     "media", "database", "databases", "drive", "drives", "curve", "curves",
     "half", "halves", "knife", "knives", "city", "cities", "movie", "movies",
     "box", "boxes", "tomato", "tomatoes", "shoe", "shoes", "crisis",
     "crises", "virus", "viruses", "status", "statuses", "bonus", "bonuses",
     "metas", "meta", "soliloquy", "soliloquies", "wolf", "wolves", "leaves",
     "index", "indices", "louse", "lice", "testis", "testes", "inch",
     "inches", "day", "days", "wife", "oxenfoo", "Person", "PEOPLE",
     "miniseries", "class",
     "my_class", "MyClass", "guys"}

\* every uncountable word in lower case, capitalized and in upper case
UncountableCasings ==
    UNION {{w, toUpperCase(substring2(w, 0, 1)) \o substring(w, 1), toUpperCase(w)} :
             w \in uncountableWords}

\* inputs of the case converters and composite transforms
CaseWords ==
    {"hello_world", "HelloWorld", "helloWorld", "hello world", "Hello World",
     "MyClass", "my_classes", "my_class", "MyModule::MyClass", "A::", "MP",
     "message_bus_properties", "MessageBusProperty", "admin/user_role",
     "user_id", "author_ids", "the 1 pitch", "11 12 13", "21 22 23 104",
     "a tale of two cities", "the x-ray of the-man", "_id", "people",
     "cat", "sheep", "x", "1  2", " 3", "3x -1 +2 x1 1.5", "- 4"}

\* what a caller may pass as the word: strings, the empty string and values
\* that are not strings
NotStrings == {Undefined, SomeNumber}

NumeralDigits == {"0", "1", "2", "3", "7"}

\* every string over NumeralDigits of length n
RECURSIVE NumeralsOfLen(_)
NumeralsOfLen(n) ==
    IF n = 0 THEN {""}
    ELSE {s \o d : s \in NumeralsOfLen(n - 1), d \in NumeralDigits}

\* the decimal numerals of at most MaxLen digits
Numerals == UNION {NumeralsOfLen(n) : n \in 1..MaxLen}

StringsOf(ws) == {Str(w) : w \in ws}

RuleInputs ==
    StringsOf(TableWords \cup GeneratedWords \cup UncountableCasings \cup {""})
        \cup NotStrings

InflectWords ==
    {"cat", "cats", "Hat", "Hats", "person", "people", "octopus", "octopuses",
     "inches", "guys", "sheep", "Sheep", "analyses", "axes", "box", "bus"}

InflectInputs == StringsOf(InflectWords \cup {""}) \cup NotStrings

CaseInputs == StringsOf(CaseWords \cup {""}) \cup NotStrings

\* every string over S of length n
RECURSIVE LettersOfLen(_, _)
LettersOfLen(S, n) ==
    IF n = 0 THEN {""}
    ELSE {s \o c : s \in LettersOfLen(S, n - 1), c \in S}

\* words of ASCII letters that start with a capital, of at most MaxLen letters
CamelWords ==
    {c \o s : c \in {"A", "M"},
              s \in UNION {LettersOfLen({"a", "b", "P"}, n) : n \in 0..(MaxLen - 1)}}

UnderscoreInputs == CaseInputs \cup StringsOf(CamelWords)

\* lower-case snake_case words of at most MaxLen characters
SnakeWords ==
    {c \o s : c \in {"a", "b"},
              s \in UNION {LettersOfLen({"a", "b", "_"}, n) : n \in 0..(MaxLen - 1)}}

CamelizeInputs == CaseInputs \cup StringsOf(SnakeWords)

\* phrases of at most MaxLen characters: letters in both cases, the three
\* separators, and the words "a" and "at" of nonTitlecasedWords among them
Phrases ==
    UNION {LettersOfLen({"a", "t", "T", " ", "-", "_"}, n) : n \in 1..MaxLen}

TitleInputs == CaseInputs \cup StringsOf(Phrases)

OrdinalInputs == CaseInputs \cup StringsOf(Numerals)

TransformInputs ==
    StringsOf({"MyClass", "my_classes", ""}) \cup {Undefined}

\* an override argument: omitted, the empty string or a word
Overrides == {Undefined, Str(""), Str("guys")}

Counts == {NaN} \cup {Num(t) : t \in (-MaxCount)..MaxCount}

\* names a caller may put in transform's list: the registered names, some
\* names of Object.prototype and a name found nowhere
NameInputs ==
    {TransformFunctionName[i] : i \in 1..Len(TransformFunctionName)}
        \cup {"constructor", "isPrototypeOf", "toString", "bogus"}

\* every list over S of length n
RECURSIVE ListsOfLen(_, _)
ListsOfLen(S, n) ==
    IF n = 0 THEN {<<>>}
    ELSE {Append(l, x) : l \in ListsOfLen(S, n - 1), x \in S}

NameLists == UNION {ListsOfLen(NameInputs, n) : n \in 0..MaxNames}

Array(items) == [isArray |-> TRUE, items |-> items]

NotAnArray == [isArray |-> FALSE, items |-> <<>>]

ArrayInputs == {Array(l) : l \in NameLists} \cup {NotAnArray}

-----------------------------------------------------------------------------
(* The state machine: a caller makes one call at a time (every function is  *)
(* synchronous); call is the call made and outcome what it returned or      *)
(* threw.  An action is one call of an entry point, from its arguments to   *)
(* its result.                                                              *)

NoCall ==
    [fn |-> "", str |-> Undefined, flag |-> FALSE, override |-> Undefined,
     plural |-> Undefined, count |-> NaN, arr |-> NotAnArray,
     memoized |-> FALSE, args |-> <<>>]

NoOutcome == Throw("")

Init ==
    /\ pc = "idle"
    /\ call = NoCall
    /\ outcome = NoOutcome
    /\ lastIndex = AtZero
    /\ memoCache = EmptyMap

\* the call ends: what it gave is the outcome, and the patterns keep the
\* lastIndex it left in them
Ends(r) ==
    /\ outcome' = r.outcome
    /\ lastIndex' = r.lastIndex

\* a call of a wrapper ends: as Ends, and the cache is what the wrapper left
Stored(m) ==
    /\ Ends(m.result)
    /\ memoCache' = m.memoCache

CallPluralize ==
    /\ pc = "idle"
    /\ \E str \in RuleInputs, plural \in Overrides :
        /\ pc' = "returned"
        /\ call' = [NoCall EXCEPT !.fn = "pluralize", !.str = str,
                                  !.override = plural]
        /\ Ends(pluralize(str, plural, lastIndex))
        /\ UNCHANGED memoCache

CallSingularize ==
    /\ pc = "idle"
    /\ \E str \in RuleInputs, singular \in Overrides :
        /\ pc' = "returned"
        /\ call' = [NoCall EXCEPT !.fn = "singularize", !.str = str,
                                  !.override = singular]
        /\ Ends(singularize(str, singular, lastIndex))
        /\ UNCHANGED memoCache

CallInflect ==
    /\ pc = "idle"
    /\ \E str \in InflectInputs, count \in Counts,
              singular \in Overrides, plural \in Overrides :
        /\ pc' = "returned"
        /\ call' = [NoCall EXCEPT !.fn = "inflect", !.str = str,
                                  !.count = count, !.override = singular,
                                  !.plural = plural]
        /\ Ends(inflect(str, count, singular, plural, lastIndex))
        /\ UNCHANGED memoCache

CallCamelize ==
    /\ pc = "idle"
    /\ \E str \in CamelizeInputs, lowFirstLetter \in BOOLEAN :
        /\ pc' = "returned"
        /\ call' = [NoCall EXCEPT !.fn = "camelize", !.str = str,
                                  !.flag = lowFirstLetter]
        /\ outcome' = camelize(str, lowFirstLetter)
        /\ UNCHANGED <<lastIndex, memoCache>>

CallUnderscore ==
    /\ pc = "idle"
    /\ \E str \in UnderscoreInputs, allUpperCase \in BOOLEAN :
        /\ pc' = "returned"
        /\ call' = [NoCall EXCEPT !.fn = "underscore", !.str = str,
                                  !.flag = allUpperCase]
        /\ outcome' = underscore(str, allUpperCase)
        /\ UNCHANGED <<lastIndex, memoCache>>

CallHumanize ==
    /\ pc = "idle"
    /\ \E str \in CaseInputs, lowFirstLetter \in BOOLEAN :
        /\ pc' = "returned"
        /\ call' = [NoCall EXCEPT !.fn = "humanize", !.str = str,
                                  !.flag = lowFirstLetter]
        /\ outcome' = humanize(str, lowFirstLetter)
        /\ UNCHANGED <<lastIndex, memoCache>>

CallCapitalize ==
    /\ pc = "idle"
    /\ \E str \in TitleInputs :
        /\ pc' = "returned"
        /\ call' = [NoCall EXCEPT !.fn = "capitalize", !.str = str]
        /\ outcome' = capitalize(str)
        /\ UNCHANGED <<lastIndex, memoCache>>

CallDasherize ==
    /\ pc = "idle"
    /\ \E str \in CaseInputs :
        /\ pc' = "returned"
        /\ call' = [NoCall EXCEPT !.fn = "dasherize", !.str = str]
        /\ outcome' = dasherize(str)
        /\ UNCHANGED <<lastIndex, memoCache>>

CallTitleize ==
    /\ pc = "idle"
    /\ \E str \in TitleInputs :
        /\ pc' = "returned"
        /\ call' = [NoCall EXCEPT !.fn = "titleize", !.str = str]
        /\ outcome' = titleize(str)
        /\ UNCHANGED <<lastIndex, memoCache>>

CallDemodulize ==
    /\ pc = "idle"
    /\ \E str \in CaseInputs :
        /\ pc' = "returned"
        /\ call' = [NoCall EXCEPT !.fn = "demodulize", !.str = str]
        /\ outcome' = demodulize(str)
        /\ UNCHANGED <<lastIndex, memoCache>>

CallTableize ==
    /\ pc = "idle"
    /\ \E str \in CaseInputs :
        /\ pc' = "returned"
        /\ call' = [NoCall EXCEPT !.fn = "tableize", !.str = str]
        /\ Ends(tableize(str, lastIndex))
        /\ UNCHANGED memoCache

CallClassify ==
    /\ pc = "idle"
    /\ \E str \in CaseInputs :
        /\ pc' = "returned"
        /\ call' = [NoCall EXCEPT !.fn = "classify", !.str = str]
        /\ Ends(classify(str, lastIndex))
        /\ UNCHANGED memoCache

CallForeignKey ==
    /\ pc = "idle"
    /\ \E str \in CaseInputs, dropIdUbar \in BOOLEAN :
        /\ pc' = "returned"
        /\ call' = [NoCall EXCEPT !.fn = "foreignKey", !.str = str,
                                  !.flag = dropIdUbar]
        /\ outcome' = foreignKey(str, dropIdUbar)
        /\ UNCHANGED <<lastIndex, memoCache>>

CallOrdinalize ==
    /\ pc = "idle"
    /\ \E str \in OrdinalInputs :
        /\ pc' = "returned"
        /\ call' = [NoCall EXCEPT !.fn = "ordinalize", !.str = str]
        /\ outcome' = ordinalize(str)
        /\ UNCHANGED <<lastIndex, memoCache>>

CallTransform ==
    /\ pc = "idle"
    /\ \E str \in TransformInputs, arr \in ArrayInputs :
        /\ pc' = "returned"
        /\ call' = [NoCall EXCEPT !.fn = "transform", !.str = str, !.arr = arr]
        /\ Ends(transform(str, arr, lastIndex))
        /\ UNCHANGED memoCache

\* functions handed to memoize and the argument lists their wrappers get
MemoFunctions == {"pluralize", "singularize", "capitalize"}

MemoArgs ==
    {<<Str("cat")>>, <<Str("cats")>>, <<Str("cat"), Str("guys")>>,
     <<Str("cat"), Undefined>>, <<Str("")>>}

\* a call of the wrapper memoize(fn) made for one of the functions
CallMemoized ==
    /\ pc = "idle"
    /\ \E fn \in MemoFunctions, args \in MemoArgs :
        /\ pc' = "returned"
        /\ call' = [NoCall EXCEPT !.fn = fn, !.memoized = TRUE, !.args = args]
        /\ Stored(memoize(fn, args, memoCache, lastIndex))

\* the caller has taken the result and is ready to make its next call
Resume ==
    /\ pc = "returned"
    /\ pc' = "idle"
    /\ call' = NoCall
    /\ outcome' = NoOutcome
    /\ UNCHANGED <<lastIndex, memoCache>>

Next ==
    \/ CallPluralize
    \/ CallSingularize
    \/ CallInflect
    \/ CallCamelize
    \/ CallUnderscore
    \/ CallHumanize
    \/ CallCapitalize
    \/ CallDasherize
    \/ CallTitleize
    \/ CallDemodulize
    \/ CallTableize
    \/ CallClassify
    \/ CallForeignKey
    \/ CallOrdinalize
    \/ CallTransform
    \/ Resume

Spec == Init /\ [][Next]_vars

\* the callers of wrappers made by memoize
NextMemo ==
    \/ CallMemoized
    \/ Resume

SpecMemo == Init /\ [][NextMemo]_vars

-----------------------------------------------------------------------------
(* Properties.                                                              *)

\* a call of fn has returned or thrown
Returned(fn) == pc = "returned" /\ call.fn = fn

\* a non-empty primitive string
ValidWord(v) == v.t = "string" /\ v.s # ""

IsUncountable(v) == toLowerCase(v.s) \in uncountableWords

\* the table a call of pluralize, singularize or inflect applies, and the
\* override it passes on
TableOf(c) ==
    IF c.fn = "pluralize" \/ (c.fn = "inflect" /\ c.count # Num(2))
    THEN pluralRules ELSE singularRules

OverrideOf(c) ==
    IF c.fn = "inflect" /\ c.count # Num(2) THEN c.plural ELSE c.override

\* the index of the first rule of the table whose pattern matches s, 0 when
\* no pattern matches
FirstMatch(rules, s) ==
    LET hits == {i \in 1..Len(rules) : test(rules[i].rule, s, 0).found}
    IN  IF hits = {} THEN 0 ELSE CHOOSE i \in hits : \A j \in hits : i <= j

\* what the first matching rule dictates for s: s itself for a guard or when
\* nothing matches, the substitution for any rule with a template
Dictated(rules, s) ==
    LET i == FirstMatch(rules, s)
    IN  IF i = 0 THEN s
        ELSE IF ~rules[i].has THEN s
        ELSE replace(s, rules[i].rule, rules[i].replacement)

\* C1: for a non-empty word that is not uncountable and a call of pluralize,
\* singularize or inflect without override, the result is what the first
\* matching rule of the table dictates: the word itself for a rule without
\* template or when no rule matches, the substitution for a rule with a
\* template, whatever the template is.
C1_FirstMatchingRuleDecides ==
    (/\ pc = "returned"
     /\ call.fn \in {"pluralize", "singularize", "inflect"}
     /\ call.fn = "inflect" => ~isNaN(call.count)
     /\ ValidWord(call.str)
     /\ ~IsUncountable(call.str)
     /\ OverrideOf(call) = Undefined)
    => outcome = Return(Str(Dictated(TableOf(call), call.str.s)))

\* C2: a word whose lower-cased form is uncountable, in any casing and with
\* no override, is returned unchanged by pluralize and by singularize, also
\* when a rule of the table would change it.
C2_UncountableUnchanged ==
    (/\ pc = "returned"
     /\ call.fn \in {"pluralize", "singularize"}
     /\ call.str.t = "string"
     /\ IsUncountable(call.str)
     /\ ~Truthy(call.override))
    => outcome = Return(call.str)

\* an uncountable word not in lower case that the rules alone would change
\* was returned unchanged
C2_Witness ==
    /\ Returned("pluralize")
    /\ IsUncountable(call.str)
    /\ call.str.s \notin uncountableWords
    /\ call.override = Undefined
    /\ Dictated(pluralRules, call.str.s) # call.str.s
    /\ outcome = Return(call.str)

\* C3: with a non-empty override string o, pluralize(w, o) and
\* singularize(w, o) return o for every non-empty word w, uncountable or not.
C3_OverrideWins ==
    (/\ pc = "returned"
     /\ call.fn \in {"pluralize", "singularize"}
     /\ ValidWord(call.str)
     /\ ValidWord(call.override))
    => outcome = Return(call.override)

\* singularize of an uncountable word with an override returned the override
C3_Witness ==
    /\ Returned("singularize")
    /\ IsUncountable(call.str)
    /\ ValidWord(call.override)
    /\ call.override # call.str
    /\ outcome = Return(call.override)


\* C4: a word that pluralize turns into word + "s" through the last rule of
\* the plural table (the append-s catch-all) is given back by singularize:
\* singularize(pluralize(w)) = w.
C4_RegularRoundTrip ==
    (/\ Returned("pluralize")
     /\ ValidWord(call.str)
     /\ ~IsUncountable(call.str)
     /\ ~Truthy(call.override)
     /\ FirstMatch(pluralRules, call.str.s) = Len(pluralRules))
    => /\ outcome = Return(Str(call.str.s \o "s"))
       /\ singularize(outcome.val, Undefined, lastIndex).outcome = Return(call.str)

\* the irregular singulars with their plurals
IrregularPlurals ==
    {<<"man", "men">>, <<"person", "people">>, <<"child", "children">>,
     <<"ox", "oxen">>, <<"axis", "axes">>, <<"octopus", "octopuses">>,
     <<"alias", "aliases">>, <<"summons", "summonses">>, <<"bus", "buses">>,
     <<"buffalo", "buffaloes">>, <<"focus", "focuses">>, <<"hive", "hives">>,
     <<"matrix", "matrices">>, <<"vertex", "vertices">>, <<"mouse", "mice">>,
     <<"foot", "feet">>, <<"tooth", "teeth">>, <<"goose", "geese">>,
     <<"quiz", "quizzes">>, <<"whereas", "whereases">>,
     <<"criterion", "criteria">>, <<"genus", "genera">>}

\* C5: pluralize maps each irregular singular to its listed plural, through
\* a rule with a replacement: no guard of the plural table stops the word.
\* (Every listed singular is among the words pluralize is called with.)
C5_IrregularPlurals ==
    /\ \A p \in IrregularPlurals : Str(p[1]) \in RuleInputs
    /\ \A p \in IrregularPlurals :
         (/\ Returned("pluralize")
          /\ call.str = Str(p[1])
          /\ ~Truthy(call.override))
         => /\ outcome = Return(Str(p[2]))
            /\ pluralRules[FirstMatch(pluralRules, p[1])].has

\* pluralize("octopus") returned "octopuses"
C5_Witness ==
    /\ Returned("pluralize")
    /\ call.str = Str("octopus")
    /\ call.override = Undefined
    /\ outcome = Return(Str("octopuses"))

\* the irregular plurals with their singulars
IrregularSingulars ==
    {<<"men", "man">>, <<"people", "person">>, <<"children", "child">>,
     <<"oxen", "ox">>, <<"octopuses", "octopus">>, <<"aliases", "alias">>,
     <<"summonses", "summons">>, <<"buses", "bus">>,
     <<"buffaloes", "buffalo">>, <<"matrices", "matrix">>,
     <<"vertices", "vertex">>, <<"mice", "mouse">>, <<"feet", "foot">>,
     <<"teeth", "tooth">>, <<"geese", "goose">>, <<"quizzes", "quiz">>,
     <<"criteria", "criterion">>, <<"genera", "genus">>,
     <<"analyses", "analysis">>, <<"bases", "basis">>,
     <<"diagnoses", "diagnosis">>, <<"parentheses", "parenthesis">>,
     <<"prognoses", "prognosis">>, <<"synopses", "synopsis">>,
     <<"theses", "thesis">>}

\* C6: singularize maps each irregular plural to its listed singular, and
\* singularize(pluralize(w)) = w for each of these singulars w.
C6_IrregularSingulars ==
    \A p \in IrregularSingulars :
        (/\ Returned("singularize")
         /\ call.str = Str(p[1])
         /\ ~Truthy(call.override))
        => /\ outcome = Return(Str(p[2]))
           /\ LET plural == pluralize(Str(p[2]), Undefined, lastIndex).outcome
              IN  /\ plural.ok
                  /\ singularize(plural.val, Undefined, lastIndex).outcome
                       = Return(Str(p[2]))

\* the two errors validateInput throws
InputValidationErrors ==
    {"Input must be a string", "Input string cannot be empty"}

RegisteredNames ==
    {"pluralize", "singularize", "camelize", "underscore", "humanize",
     "capitalize", "dasherize", "titleize", "demodulize", "tableize",
     "classify", "foreignKey", "ordinalize"}

\* C8: for a valid word and a name list holding, at any position, a string
\* that is not a registered name, transform fails with the unknown-name
\* error and returns no value.
C8_UnknownNameRejected ==
    (/\ Returned("transform")
     /\ ValidWord(call.str)
     /\ call.arr.isArray
     /\ \E i \in 1..Len(call.arr.items) : call.arr.items[i] \notin RegisteredNames)
    => /\ ~outcome.ok
       /\ outcome.err = "Invalid transformation function name"

\* the public function of a registered name called directly on v, with its
\* optional parameter left out
Direct(name, v) ==
    CASE name = "pluralize" -> pluralize(v, Undefined, lastIndex).outcome
      [] name = "singularize" -> singularize(v, Undefined, lastIndex).outcome
      [] name = "camelize" -> camelize(v, FALSE)
      [] name = "underscore" -> underscore(v, FALSE)
      [] name = "humanize" -> humanize(v, FALSE)
      [] name = "capitalize" -> capitalize(v)
      [] name = "dasherize" -> dasherize(v)
      [] name = "titleize" -> titleize(v)
      [] name = "demodulize" -> demodulize(v)
      [] name = "tableize" -> tableize(v, lastIndex).outcome
      [] name = "classify" -> classify(v, lastIndex).outcome
      [] name = "foreignKey" -> foreignKey(v, FALSE)
      [] name = "ordinalize" -> ordinalize(v)

\* the direct calls in list order, each on the previous one's result; the
\* composition fails as soon as one call fails
RECURSIVE Composition(_, _)
Composition(v, names) ==
    IF names = <<>> THEN Return(v)
    ELSE LET r == Direct(Head(names), v)
         IN  IF ~r.ok THEN r ELSE Composition(r.val, Tail(names))

C10_InflectByCount ==
    (/\ Returned("inflect")
     /\ ValidWord(call.str))
    => IF call.count = NaN THEN outcome = Return(call.str)
       ELSE IF call.count = Num(2)
            THEN outcome = singularize(call.str, call.override, lastIndex).outcome
       ELSE outcome = pluralize(call.str, call.plural, lastIndex).outcome

\* inflect("person", 1.5) with no override returned "people"
C10_Witness ==
    /\ Returned("inflect")
    /\ call.str = Str("person")
    /\ call.count = Num(3)
    /\ call.plural = Undefined
    /\ outcome = Return(Str("people"))


\* the number a numeral of decimal digits denotes
DigitValue ==
    [d \in Digits |-> CASE d = "0" -> 0 [] d = "1" -> 1 [] d = "2" -> 2
                        [] d = "3" -> 3 [] d = "4" -> 4 [] d = "5" -> 5
                        [] d = "6" -> 6 [] d = "7" -> 7 [] d = "8" -> 8
                        [] d = "9" -> 9]

IsNumeral(tok) == tok # "" /\ \A i \in 1..Len(tok) : CharAt(tok, i) \in Digits

RECURSIVE NumeralValue(_)
NumeralValue(tok) ==
    IF tok = "" THEN 0
    ELSE 10 * NumeralValue(SubSeq(tok, 1, Len(tok) - 1))
             + DigitValue[CharAt(tok, Len(tok))]

\* the English ordinal suffix of n
OrdinalSuffix(n) ==
    IF n % 100 \in {11, 12, 13} THEN "th"
    ELSE IF n % 10 = 1 THEN "st"
    ELSE IF n % 10 = 2 THEN "nd"
    ELSE IF n % 10 = 3 THEN "rd"
    ELSE "th"

\* C11: ordinalize of a string keeps the number and order of the
\* space-separated tokens; a token that is a decimal numeral n gets the
\* ordinal suffix of n appended ("th" for n mod 100 in 11..13, else
\* "st"/"nd"/"rd" for a last digit 1/2/3, else "th"), and a token parseInt
\* cannot read as an integer is passed through unchanged.
C11_OrdinalSuffixes ==
    (/\ Returned("ordinalize")
     /\ call.str.t = "string")
    => /\ outcome.ok
       /\ outcome.val.t = "string"
       /\ LET toks == split(call.str.s, " ")
              out == split(outcome.val.s, " ")
          IN  /\ Len(out) = Len(toks)
              /\ \A i \in 1..Len(toks) :
                    /\ IsNumeral(toks[i])
                         => out[i] = toks[i] \o OrdinalSuffix(NumeralValue(toks[i]))
                    /\ ParseIntIsNaN(toks[i]) => out[i] = toks[i]

\* ordinalize("21 22 23 104") returned "21st 22nd 23rd 104th", and a numeral
\* ending in 11 got "th"
C11_Witness ==
    /\ Returned("ordinalize")
    /\ \/ /\ call.str = Str("21 22 23 104")
          /\ outcome = Return(Str("21st 22nd 23rd 104th"))
       \/ /\ call.str = Str("11 12 13")
          /\ outcome = Return(Str("11th 12th 13th"))


IsUpperLetter(c) == c \in DOMAIN UpperToLower

IsLetter(c) == c \in DOMAIN UpperToLower \/ c \in DOMAIN LowerToUpper

\* a non-empty word of ASCII letters whose first letter is a capital
IsCamelWord(s) ==
    /\ s # ""
    /\ IsUpperLetter(CharAt(s, 1))
    /\ \A i \in 1..Len(s) : IsLetter(CharAt(s, i))

\* C12: for a word s of ASCII letters that starts with a capital,
\* camelize(underscore(s)) = s with both optional flags left out.
C12_CamelizeUndoesUnderscore ==
    (/\ Returned("underscore")
     /\ ~call.flag
     /\ call.str.t = "string"
     /\ IsCamelWord(call.str.s))
    => /\ outcome.ok
       /\ camelize(outcome.val, FALSE) = Return(call.str)

\* underscore("HelloWorld") returned "hello_world", which camelize takes back
C12_Witness ==
    /\ Returned("underscore")
    /\ ~call.flag
    /\ call.str = Str("HelloWorld")
    /\ outcome = Return(Str("hello_world"))
    /\ camelize(outcome.val, FALSE) = Return(Str("HelloWorld"))


\* C13: capitalize and titleize are idempotent: applied to its own result,
\* each returns that result again.
C13_Idempotent ==
    /\ (Returned("capitalize") /\ call.str.t = "string")
         => outcome.ok /\ capitalize(outcome.val) = outcome
    /\ (Returned("titleize") /\ call.str.t = "string")
         => outcome.ok /\ titleize(outcome.val) = outcome

\* titleize turned a phrase with words of the non-title-cased list into its
\* title form, and capitalize changed a word with capitals
C13_Witness ==
    \/ /\ Returned("titleize")
       /\ call.str = Str("a tale of two cities")
       /\ outcome = Return(Str("A Tale of Two Cities"))
       /\ titleize(outcome.val) = outcome
    \/ /\ Returned("capitalize")
       /\ call.str = Str("helloWorld")
       /\ outcome = Return(Str("Helloworld"))
       /\ capitalize(outcome.val) = outcome


\* the sub-words of s, delimited by spaces and dashes, in order
RECURSIVE SubWords(_)
SubWords(s) ==
    LET at == {i \in 1..Len(s) : CharAt(s, i) \in {" ", "-"}}
    IN  IF at = {} THEN <<s>>
        ELSE LET i == CHOOSE x \in at : \A y \in at : x <= y
             IN  <<SubSeq(s, 1, i - 1)>> \o SubWords(SubSeq(s, i + 1, Len(s)))

IsNonTitlecased(w) ==
    \E n \in 1..Len(nonTitlecasedWords) : nonTitlecasedWords[n] = toLowerCase(w)

\* first character upper-case, every other character lower-case
IsCapitalized(w) ==
    /\ CharAt(w, 1) = UpperChar(CharAt(w, 1))
    /\ SubSeq(w, 2, Len(w)) = toLowerCase(SubSeq(w, 2, Len(w)))

IsSnakeWord(s) ==
    /\ s # ""
    /\ CharAt(s, 1) \in DOMAIN LowerToUpper
    /\ \A i \in 1..Len(s) : CharAt(s, i) \in DOMAIN LowerToUpper \cup {"_"}

\* s without its underscores, a letter in upper case when up holds or an
\* underscore precedes it
RECURSIVE CamelForm(_, _)
CamelForm(s, up) ==
    IF s = "" THEN ""
    ELSE IF CharAt(s, 1) = "_" THEN CamelForm(SubSeq(s, 2, Len(s)), TRUE)
    ELSE (IF up THEN UpperChar(CharAt(s, 1)) ELSE CharAt(s, 1))
             \o CamelForm(SubSeq(s, 2, Len(s)), FALSE)

TablePatterns ==
    {pluralRules[i].rule : i \in 1..Len(pluralRules)}
        \cup {singularRules[i].rule : i \in 1..Len(singularRules)}

\* what the call just made gives when every pattern's lastIndex is 0, as it
\* is before the first call
FromAtZero(c) ==
    CASE c.fn = "pluralize" -> pluralize(c.str, c.override, AtZero).outcome
      [] c.fn = "singularize" -> singularize(c.str, c.override, AtZero).outcome
      [] c.fn = "inflect" ->
           inflect(c.str, c.count, c.override, c.plural, AtZero).outcome

\* C17: after every call of pluralize, singularize or inflect, however it
\* ends, every pattern of both rule tables has its lastIndex at 0, and the
\* call gave what its arguments alone determine, whatever calls came before.
C17_RuleTablesUnmutated ==
    (pc = "returned" /\ call.fn \in {"pluralize", "singularize", "inflect"})
    => /\ \A re \in TablePatterns : LastIndexOf(lastIndex, re) = 0
       /\ outcome = FromAtZero(call)

\* pluralize("people") returned by the guard (pe)ople$: test found the match
\* and moved the pattern's lastIndex to 6, and the pattern is back at 0
C17_Witness ==
    /\ Returned("pluralize")
    /\ call.str = Str("people")
    /\ call.override = Undefined
    /\ outcome = Return(Str("people"))
    /\ regex.plural.people \in TablePatterns
    /\ test(regex.plural.people, call.str.s, 0) = [found |-> TRUE, lastIndex |-> 6]
    /\ LastIndexOf(lastIndex, regex.plural.people) = 0


\* C16: a call of a wrapper made by memoize gives exactly what the wrapped
\* function computes for the same arguments, whatever calls of wrappers (of
\* this or of another function, with these or other arguments) came before.
C16_MemoCacheTransparent ==
    (pc = "returned" /\ call.memoized)
    => outcome = Apply(call.fn, call.args, lastIndex).outcome


\* the plural forms the claim on guards lists
NamedPlurals ==
    {"men", "women", "people", "children", "data", "media", "analyses",
     "databases", "drives", "hives", "curves", "halves", "knives", "cities",
     "movies", "boxes", "mice", "buses", "tomatoes", "shoes", "crises", "axes",
     "octopuses", "viruses", "aliases", "statuses", "summonses", "bonuses",
     "oxen", "matrices", "vertices", "feet", "teeth", "geese", "quizzes",
     "whereases", "criteria", "genera"}

\* the singular forms the claim on guards lists
NamedSingulars ==
    {"man", "person", "child", "drive", "ox", "axis", "octopus", "alias",
     "summons", "bus", "buffalo", "datum", "analysis", "knife", "half",
     "focus", "hive", "city", "box", "matrix", "vertex", "mouse", "foot",
     "tooth", "goose", "quiz", "whereas", "criterion", "genus"}

\* the first rule of the table that matches s is one without replacement
GuardStops(rules, s) ==
    /\ FirstMatch(rules, s) # 0
    /\ ~rules[FirstMatch(rules, s)].has

\* a call of pluralize on a listed plural or of singularize on a listed
\* singular, without override, has returned
NamedFormCall ==
    /\ pc = "returned"
    /\ ~Truthy(call.override)
    /\ call.str.t = "string"
    /\ \/ call.fn = "pluralize" /\ call.str.s \in NamedPlurals
       \/ call.fn = "singularize" /\ call.str.s \in NamedSingulars

\* C18 as stated: every listed plural comes back from pluralize unchanged and
\* every listed singular from singularize, each stopped by a guard, a rule
\* without replacement that is the first rule to match the word.
C18_GuardStopsEveryNamedForm ==
    NamedFormCall
    => /\ outcome = Return(call.str)
       /\ GuardStops(TableOf(call), call.str.s)

\* C18: every listed plural comes back from pluralize unchanged and every
\* listed singular from singularize; a guard is the first rule to match each
\* of them but "vertices", which no guard of the plural table matches and
\* whose first matching rule, s$ with the template "s", rewrites it to itself.
\* (Every listed word is among the words the two functions are called with.)
C18_NamedFormsUnchanged ==
    /\ \A w \in NamedPlurals \cup NamedSingulars : Str(w) \in RuleInputs
    /\ NamedFormCall
       => /\ outcome = Return(call.str)
          /\ call.str.s # "vertices" => GuardStops(TableOf(call), call.str.s)
          /\ call.str.s = "vertices"
             => /\ ~GuardStops(TableOf(call), call.str.s)
                /\ Dictated(TableOf(call), call.str.s) = call.str.s

\* pluralize("vertices") returned "vertices", the first rule to match being
\* the replacement rule s$ -> "s"
C18_Witness ==
    /\ Returned("pluralize")
    /\ call.str = Str("vertices")
    /\ call.override = Undefined
    /\ outcome = Return(Str("vertices"))
    /\ pluralRules[FirstMatch(pluralRules, "vertices")].rule = regex.singular.s


\* the table words that are not uncountable, all of them words pluralize
\* and singularize are called with
CountableWords == {w \in TableWords : w \notin uncountableWords}

\* the rules of the table with a replacement that are the first matching rule
\* of no word of CountableWords
Shadowed(rules) ==
    {i \in 1..Len(rules) :
        /\ rules[i].has
        /\ \A w \in CountableWords : FirstMatch(rules, w) # i}

ShadowedPluralRules == Shadowed(pluralRules)

ShadowedSingularRules == Shadowed(singularRules)

\* C19: in the plural table and in the singular table, every rule with a
\* replacement is the first matching rule of some word that is not
\* uncountable: whichever of the two tables a call of pluralize or
\* singularize has scanned, no rule with a replacement in it is shadowed by
\* the rules before it.
C19_NoReplacementRuleShadowed ==
    (pc = "returned" /\ call.fn \in {"pluralize", "singularize"})
    => IF call.fn = "pluralize"
       THEN ShadowedPluralRules = {}
       ELSE ShadowedSingularRules = {}

====
